---------------------------- MODULE Spec2Model ----------------------------
(***************************************************************************)
(* A model of VID2MID: the MIDI mapper (core/midi_mapper.py), the frame    *)
(* analysis loop (core/motion_detector.py) and the configuration merges    *)
(* (core/midi_mapper.py, core/config_manager.py).                          *)
(*                                                                         *)
(* Units.  Python floats are modelled by integers in fixed units:          *)
(*   time            milliseconds                                          *)
(*   hue_shift,      hundredths (0..100 stands for 0.0..1.0) in the mapper *)
(*   value_shift                                                           *)
(*   intensity       tenths (10 stands for 1.0)                            *)
(*   direction, hue  degrees / OpenCV hue units                            *)
(* int(x) of Python truncates toward zero and is modelled by Trunc.        *)
(***************************************************************************)
EXTENDS Integers, Sequences, FiniteSets, TLC

VARIABLES
    \* ---- MIDIMapper: one track builder running over its input ----
    builder,        \* which _create_*_track call is modelled
    pc,             \* position of that call
    config,         \* the values the builder reads from self.config
    data,           \* the events of `data` consumed so far, in order
    track,          \* the MidiTrack being built
    last_time,      \* local last_time of the builder
    last_hue,       \* local last_hue of _create_background_track
    current_group,  \* local current_group of _create_details_track
    clusters,       \* history: the groups handed to _add_note_cluster
    gap_ms,         \* history: the arguments given to ms_to_ticks for gaps
    \* ---- MIDIMapper.create_multitrack_midi ----
    mid,            \* mid.tracks (<<>> while no MidiFile is being assembled)
    analysis_data,  \* history: the streams the finished builders consumed
    \* ---- MotionDetector.analyze_video ----
    apc,            \* position of analyze_video
    prev_hsv,       \* self.prev_hsv
    results,        \* the three accumulators of the running call
    frame_count,    \* local frame_count
    pos,            \* frames the capture has delivered in this call
    calls,          \* analyze_video calls started on this instance
    video,          \* the frame shape of the video the call has opened
    last_read,      \* history: what the last loop iteration met
    stamps,         \* history: timestamps of the frames analysed in this call
    assigned,       \* history: writes to self.prev_hsv in this call
    last_normalized, \* history: the latest frame that was analysed
    \* ---- configuration merges ----
    cpc,            \* position of the merge scenario
    mode,           \* "merge" (_merge_configs) or "update" (Config.update)
    base_cfg,       \* the default mapping / Config.tracks before the merge
    user_cfg,       \* the user mapping / the preset
    key_order,      \* the iteration order of the preset's "tracks" mapping
    once,           \* result after one merge
    twice           \* result after merging the same mapping again

mapper_vars   == <<builder, pc, config, data, track, last_time, last_hue,
                   current_group, clusters, gap_ms>>
detector_vars == <<apc, prev_hsv, results, frame_count, pos, calls, video,
                   last_read, stamps, assigned, last_normalized>>
config_vars   == <<cpc, mode, base_cfg, user_cfg, key_order, once, twice>>
score_vars    == <<mid, analysis_data>>
vars          == <<mapper_vars, score_vars, score_vars, detector_vars,
                   config_vars>>

---------------------------------------------------------------------------
\* Bounds of the model.
MaxEvents == 4          \* events fed to one track builder
MaxScoreEvents == 2     \* events in the three streams of one analysis_data
MaxFrames == 3          \* reads of the capture in one analyze_video call
MaxCalls  == 2          \* analyze_video calls on one detector instance
frame_ms  == 40         \* milliseconds between two frames of the capture

\* Program constants.
ticks_per_beat    == 480
tempo             == 500000
base_note         == 36
base_octave       == 4
default_decay_b   == 15000
default_decay_m   == 500
default_threshold == 10      \* 1.0 in tenths
default_group     == 50
program_background == 52
program_medium     == 74
program_details    == 127

---------------------------------------------------------------------------
\* Generic helpers.
Trunc(num, den) == IF num >= 0 THEN num \div den ELSE -((-num) \div den)

Floor(num, den) == num \div den

Abs(x) == IF x >= 0 THEN x ELSE -x

Min(a, b) == IF a <= b THEN a ELSE b

\* dict.get(key, default)
Get(e, key, default) == IF key \in DOMAIN e THEN e[key] ELSE default

Has(e, key) == key \in DOMAIN e

With(e, key, val) ==
    [k \in (DOMAIN e) \cup {key} |-> IF k = key THEN val ELSE e[k]]

Last(s) == s[Len(s)]

\* Python's None, for a slot that otherwise holds a record.
None == [none |-> TRUE]

---------------------------------------------------------------------------
\* MIDIMapper

channel_mapping == [background |-> 0, medium |-> 1, details |-> 2]

\* int((milliseconds * ticks_per_beat) / (tempo / 1000))
ms_to_ticks(milliseconds) ==
    Trunc(milliseconds * ticks_per_beat, tempo \div 1000)

\* mido.Message: a field that is not passed keeps mido's default
\* (channel 0, velocity 64, time 0).
program_change(program, channel) ==
    [type |-> "program_change", channel |-> channel, program |-> program,
     time |-> 0]

control_change(value, time) ==
    [type |-> "control_change", channel |-> 0, control |-> 1,
     value |-> value, time |-> time]

note_on(note, velocity, time) ==
    [type |-> "note_on", channel |-> 0, note |-> note,
     velocity |-> velocity, time |-> time]

note_off(note, time) ==
    [type |-> "note_off", channel |-> 0, note |-> note,
     velocity |-> 64, time |-> time]

scale_medium == <<0, 2, 4, 7, 9>>

note_range == <<84, 96>>

\* _direction_to_note(angle, scale, octave)
_direction_to_note(angle, scale, octave) ==
    LET a          == angle % 360
        note_index == Trunc(a * Len(scale), 360)
    IN  scale[(note_index % Len(scale)) + 1] + (octave * 12)

\* _hue_to_note(hue, note_range)
_hue_to_note(hue, range) ==
    Trunc(range[1] * 180 + hue * (range[2] - range[1]), 180)

\* int(math.sqrt(value_shift) * 127), value_shift in hundredths
bg_velocity(value_shift) ==
    CHOOSE n \in 0..127 :
        /\ n * n * 100 <= 127 * 127 * value_shift
        /\ (n + 1) * (n + 1) * 100 > 127 * 127 * value_shift

\* min(int(hue_change * 127), 127), hue_change in hundredths
bg_mod_value(hue_change) == Min(Trunc(hue_change * 127, 100), 127)

\* int(min(intensity * 127, 127)), intensity in tenths
medium_velocity(intensity) == Min(Trunc(intensity * 127, 10), 127)

---------------------------------------------------------------------------
\* Inputs of the track builders.
TimesBM      == {0, 25, 40, 100}
TimesDetails == {0, 10, 20, 80, 90}

\* Each builder's samples: the fields it reads, with every one of them
\* missing from some sample.
BackgroundShapes ==
    { [hue_shift |-> 50, value_shift |-> 25],
      [hue_shift |-> 50],
      [value_shift |-> 100] }

MediumShapes ==
    { [intensity |-> 10, direction |-> 45],
      [intensity |-> 20, direction |-> 200],
      [intensity |-> 25],
      [direction |-> 200] }

DetailShapes ==
    { [hue |-> 90, size |-> 50],
      [hue |-> 120],
      [size |-> 30] }

Stamped(shapes, times) == { With(s, "time", t) : s \in shapes, t \in times }

\* Samples without a "time".
Untimed(b) ==
    CASE b = "background" -> { [hue_shift |-> 50, value_shift |-> 25] }
      [] b = "medium"     -> { [intensity |-> 25, direction |-> 200],
                               [direction |-> 200] }
      [] b = "details"    -> { [hue |-> 90, size |-> 50] }

BackgroundSamples ==
    Stamped(BackgroundShapes, TimesBM) \cup Untimed("background")

MediumSamples == Stamped(MediumShapes, TimesBM) \cup Untimed("medium")

DetailEvents == Stamped(DetailShapes, TimesDetails) \cup Untimed("details")

\* The latest timestamp among the consumed events (0 when there is none):
\* analysis streams are time-ordered.
RECURSIVE InputClock(_)
InputClock(s) ==
    IF s = <<>> THEN 0
    ELSE IF Has(Last(s), "time") THEN Last(s).time
    ELSE InputClock(SubSeq(s, 1, Len(s) - 1))

InOrder(e) == Has(e, "time") => e.time >= InputClock(data)

Configs(b) ==
    LET dflt == [decay_b |-> default_decay_b, decay_m |-> default_decay_m,
                 threshold |-> default_threshold,
                 group_threshold |-> default_group]
    IN  CASE b = "background" -> {dflt, [dflt EXCEPT !.decay_b = 25]}
          [] b = "medium"     -> {dflt, [dflt EXCEPT !.threshold = 20]}
          [] b = "details"    -> {dflt, [dflt EXCEPT !.group_threshold = 15]}

\* ---- _create_background_track ----
BackgroundStart ==
    /\ builder = "background" /\ pc = "start"
    /\ track' = <<program_change(program_background, 0)>>
    /\ pc' = "loop"
    /\ UNCHANGED <<builder, config, data, last_time, last_hue, current_group,
                   clusters, gap_ms, score_vars, detector_vars,
                   config_vars>>

\* The three messages of one loop iteration.
background_messages(event, prev_time, prev_hue, decay) ==
    LET delta_ticks == ms_to_ticks(event.time - prev_time)
        hue_change  == Abs(Get(event, "hue_shift", 0) - prev_hue)
        mod_value   == bg_mod_value(hue_change)
        velocity    == bg_velocity(Get(event, "value_shift", 0))
    IN  << control_change(mod_value, delta_ticks),
           note_on(base_note, velocity, 0),
           note_off(base_note, ms_to_ticks(decay)) >>

BackgroundIteration(event) ==
    /\ builder = "background" /\ pc = "loop"
    /\ data' = Append(data, event)
    /\ IF ~Has(event, "time")
       THEN \* event["time"] raises KeyError
            /\ pc' = "raised"
            /\ UNCHANGED <<track, last_time, last_hue, gap_ms>>
       ELSE /\ track' = track \o background_messages(event, last_time, last_hue,
                                                     config.decay_b)
            /\ gap_ms' = Append(gap_ms, event.time - last_time)
            /\ last_time' = event.time
            /\ last_hue' = Get(event, "hue_shift", 0)
            /\ pc' = pc
    /\ UNCHANGED <<builder, config, current_group, clusters,
                   score_vars, detector_vars,
                   config_vars>>

\* ---- _create_medium_track ----
MediumStart ==
    /\ builder = "medium" /\ pc = "start"
    /\ track' = <<program_change(program_medium, 1)>>
    /\ pc' = "loop"
    /\ UNCHANGED <<builder, config, data, last_time, last_hue, current_group,
                   clusters, gap_ms, score_vars, detector_vars,
                   config_vars>>

\* if event.get("intensity", 0) < threshold: continue
medium_filtered(event, threshold) == Get(event, "intensity", 0) < threshold

medium_messages(event, prev_time, decay) ==
    LET delta_ticks == ms_to_ticks(event.time - prev_time)
        note        == _direction_to_note(Get(event, "direction", 0),
                                          scale_medium, base_octave)
        velocity    == medium_velocity(Get(event, "intensity", 0))
    IN  << note_on(note, velocity, delta_ticks),
           note_off(note, ms_to_ticks(decay)) >>

\* Mutant: a filtered sample advances the time reference too.
medium_last_time_advancing(event, filtered, prev_time) ==
    IF Has(event, "time") THEN event.time ELSE prev_time

\* last_time after one loop iteration
medium_last_time(event, filtered, prev_time) ==
    IF filtered THEN prev_time ELSE event.time

MediumIteration(event) ==
    /\ builder = "medium" /\ pc = "loop"
    /\ data' = Append(data, event)
    /\ LET filtered == medium_filtered(event, config.threshold) IN
       IF filtered
       THEN /\ last_time' = medium_last_time(event, filtered, last_time)
            /\ UNCHANGED <<pc, track, gap_ms>>
       ELSE IF ~Has(event, "time")
       THEN \* event["time"] raises KeyError
            /\ pc' = "raised"
            /\ UNCHANGED <<track, last_time, gap_ms>>
       ELSE /\ track' = track \o medium_messages(event, last_time,
                                                 config.decay_m)
            /\ gap_ms' = Append(gap_ms, event.time - last_time)
            /\ last_time' = medium_last_time(event, filtered, last_time)
            /\ pc' = pc
    /\ UNCHANGED <<builder, config, last_hue, current_group, clusters,
                   score_vars, detector_vars,
                   config_vars>>

\* ---- _create_details_track and _add_note_cluster ----
DetailsStart ==
    /\ builder = "details" /\ pc = "start"
    /\ track' = <<program_change(program_details, 2)>>
    /\ pc' = "loop"
    /\ UNCHANGED <<builder, config, data, last_time, last_hue, current_group,
                   clusters, gap_ms, score_vars, detector_vars,
                   config_vars>>

\* max(events, key=lambda x: x.get("size", 0)): the first maximal element
main_index(events) ==
    CHOOSE i \in 1..Len(events) :
        /\ \A j \in 1..Len(events) :
              Get(events[j], "size", 0) <= Get(events[i], "size", 0)
        /\ \A j \in 1..(i - 1) :
              Get(events[j], "size", 0) < Get(events[i], "size", 0)

\* main_event["time"] - track[-1].time if track else 0
cluster_gap(trk, events) ==
    IF trk # <<>> THEN events[main_index(events)].time - Last(trk).time ELSE 0

RECURSIVE secondary_messages(_, _)
secondary_messages(events, main_event) ==
    IF events = <<>> THEN <<>>
    ELSE LET event == Head(events)
             note  == _hue_to_note(Get(event, "hue", 0), note_range)
             rest  == secondary_messages(Tail(events), main_event)
         IN  IF event = main_event THEN rest
             ELSE <<note_on(note, 90, 0), note_off(note, ms_to_ticks(30))>>
                  \o rest

\* _add_note_cluster(track, events, note_range): the track afterwards
_add_note_cluster(trk, events) ==
    IF events = <<>> THEN trk
    ELSE LET main_event  == events[main_index(events)]
             main_note   == _hue_to_note(Get(main_event, "hue", 0), note_range)
             delta_ticks == ms_to_ticks(cluster_gap(trk, events))
         IN  trk \o <<note_on(main_note, 127, delta_ticks),
                      note_off(main_note, ms_to_ticks(50))>>
                 \o secondary_messages(events, main_event)

\* Mutant: the gap is measured from the first event of the group.
starts_new_group_from_first(group, event, group_threshold) ==
    /\ group # <<>>
    /\ event.time - group[1].time > group_threshold

\* current_group and (event["time"] - current_group[-1]["time"]) > group_threshold
starts_new_group(group, event, group_threshold) ==
    /\ group # <<>>
    /\ event.time - Last(group).time > group_threshold

DetailsIteration(event) ==
    /\ builder = "details" /\ pc = "loop"
    /\ data' = Append(data, event)
    /\ IF ~Has(event, "time")
       THEN \* event["time"] raises KeyError (line 162 or line 167)
            /\ pc' = "raised"
            /\ UNCHANGED <<track, last_time, current_group, clusters, gap_ms>>
       ELSE IF starts_new_group(current_group, event, config.group_threshold)
       THEN /\ track' = _add_note_cluster(track, current_group)
            /\ gap_ms' = Append(gap_ms, cluster_gap(track, current_group))
            /\ clusters' = Append(clusters, current_group)
            /\ current_group' = <<event>>
            /\ last_time' = event.time
            /\ pc' = pc
       ELSE /\ current_group' = Append(current_group, event)
            /\ last_time' = event.time
            /\ UNCHANGED <<pc, track, clusters, gap_ms>>
    /\ UNCHANGED <<builder, config, last_hue, score_vars, detector_vars,
                   config_vars>>

\* The loop is over: the builder returns its track.
BuilderReturn ==
    /\ pc = "loop"
    /\ pc' = "done"
    /\ IF builder = "details" /\ current_group # <<>>
       THEN /\ track' = _add_note_cluster(track, current_group)
            /\ gap_ms' = Append(gap_ms, cluster_gap(track, current_group))
            /\ clusters' = Append(clusters, current_group)
       ELSE UNCHANGED <<track, clusters, gap_ms>>
    /\ UNCHANGED <<builder, config, data, last_time, last_hue, current_group,
                   score_vars, detector_vars,
                   config_vars>>

EmptyStreams == [background |-> <<>>, medium |-> <<>>, details |-> <<>>]

\* Whether the builder runs inside create_multitrack_midi.
InScore == mid # <<>>

\* The input still has an event: a builder run on its own consumes at most
\* MaxEvents, the three builders of one create_multitrack_midi call at most
\* MaxScoreEvents together.
EventBudget ==
    IF InScore
    THEN Len(analysis_data.background) + Len(analysis_data.medium)
             + Len(analysis_data.details) + Len(data) < MaxScoreEvents
    ELSE Len(data) < MaxEvents

\* for event in data: the next event of a time-ordered stream
BackgroundEvent ==
    /\ EventBudget
    /\ \E event \in BackgroundSamples :
          InOrder(event) /\ BackgroundIteration(event)

MediumEvent ==
    /\ EventBudget
    /\ \E event \in MediumSamples : InOrder(event) /\ MediumIteration(event)

DetailsEvent ==
    /\ EventBudget
    /\ \E event \in DetailEvents : InOrder(event) /\ DetailsIteration(event)

MapperNext ==
    \/ BackgroundStart
    \/ BackgroundEvent
    \/ MediumStart
    \/ MediumEvent
    \/ DetailsStart
    \/ DetailsEvent
    \/ BuilderReturn

---------------------------------------------------------------------------
\* The parts of the state a specification does not exercise stay as
\* constructed.
InitMapper ==
    /\ builder \in {"background", "medium", "details"}
    /\ pc = "start"
    /\ config \in Configs(builder)
    /\ data = <<>> /\ track = <<>> /\ last_time = 0 /\ last_hue = 0
    /\ current_group = <<>> /\ clusters = <<>> /\ gap_ms = <<>>
    /\ mid = <<>>
    /\ analysis_data = [background |-> <<>>, medium |-> <<>>, details |-> <<>>]
    /\ apc = "idle" /\ prev_hsv = None
    /\ results = [background |-> <<>>, medium |-> <<>>, details |-> <<>>]
    /\ frame_count = 0 /\ pos = 0 /\ calls = 0 /\ video = "none"
    /\ last_read = "none"
    /\ stamps = <<>> /\ assigned = 0 /\ last_normalized = None
    /\ cpc = "idle" /\ mode = "none"
    /\ base_cfg = None /\ user_cfg = None /\ key_order = <<>>
    /\ once = None /\ twice = None

SpecMapper == InitMapper /\ [][MapperNext]_vars

---------------------------------------------------------------------------
\* MIDIMapper.create_multitrack_midi

\* MetaMessage('set_tempo', tempo=self.tempo)
set_tempo == [type |-> "set_tempo", tempo |-> tempo, time |-> 0]

\* Mutant: the medium track is built and appended before the background one.
track_order_medium_first == <<"medium", "background", "details">>

\* The order in which the instrument tracks are built and appended.
track_order == <<"background", "medium", "details">>

\* mid = MidiFile(...); the tempo track is appended; the first builder is
\* called.
CreateMidi ==
    /\ builder = "none" /\ pc = "idle" /\ mid = <<>>
    /\ mid' = << <<set_tempo>> >>
    /\ builder' = track_order[1]
    /\ pc' = "start"
    /\ UNCHANGED <<config, data, track, last_time, last_hue, current_group,
                   clusters, gap_ms, analysis_data, detector_vars,
                   config_vars>>

\* mid.tracks.append(<the track the builder returned>), then the next
\* builder is called with fresh locals, or the file is saved.
TrackAppended ==
    /\ InScore /\ pc = "done"
    /\ mid' = Append(mid, track)
    /\ analysis_data' = [analysis_data EXCEPT ![builder] = data]
    /\ IF Len(mid) < Len(track_order)
       THEN builder' = track_order[Len(mid) + 1] /\ pc' = "start"
       ELSE builder' = "none" /\ pc' = "save"
    /\ data' = <<>> /\ track' = <<>> /\ last_time' = 0 /\ last_hue' = 0
    /\ current_group' = <<>> /\ clusters' = <<>>
    /\ UNCHANGED <<config, gap_ms, detector_vars, config_vars>>

\* mid.save(output_path)
Save ==
    /\ InScore /\ pc = "save"
    /\ pc' = "saved"
    /\ UNCHANGED <<builder, config, data, track, last_time, last_hue,
                   current_group, clusters, gap_ms, score_vars, detector_vars,
                   config_vars>>

ScoreNext ==
    \/ CreateMidi
    \/ BackgroundStart
    \/ BackgroundEvent
    \/ MediumStart
    \/ MediumEvent
    \/ DetailsStart
    \/ DetailsEvent
    \/ BuilderReturn
    \/ TrackAppended
    \/ Save

InitScore ==
    /\ builder = "none" /\ pc = "idle"
    /\ config \in Configs("background") \cup Configs("medium")
                  \cup Configs("details")
    /\ data = <<>> /\ track = <<>> /\ last_time = 0 /\ last_hue = 0
    /\ current_group = <<>> /\ clusters = <<>> /\ gap_ms = <<>>
    /\ mid = <<>>
    /\ analysis_data = [background |-> <<>>, medium |-> <<>>, details |-> <<>>]
    /\ apc = "idle" /\ prev_hsv = None
    /\ results = [background |-> <<>>, medium |-> <<>>, details |-> <<>>]
    /\ frame_count = 0 /\ pos = 0 /\ calls = 0 /\ video = "none"
    /\ last_read = "none"
    /\ stamps = <<>> /\ assigned = 0 /\ last_normalized = None
    /\ cpc = "idle" /\ mode = "none"
    /\ base_cfg = None /\ user_cfg = None /\ key_order = <<>>
    /\ once = None /\ twice = None

SpecScore == InitScore /\ [][ScoreNext]_vars

---------------------------------------------------------------------------
\* MotionDetector
\*
\* A normalized frame (the result of _preprocess_frame) is abstracted to a
\* uniform image: its shape, its hue and value, and the number of saturated
\* blobs in it.  hue_shift is kept in units of 1/179 and value_shift in
\* units of 1/255, so that mean(absdiff)/179.0 and mean(absdiff)/255.0 are
\* exact; intensity is in tenths.
Shapes == {"small", "large"}

Frames ==
    { [shape |-> sh, hue |-> h, value |-> 100, blobs |-> b] :
          sh \in Shapes, h \in {20, 30}, b \in {0, 1} }

\* What the dense optical flow of the backend summarises to.
Flows == { [intensity |-> 0, direction |-> 0], [intensity |-> 25, direction |-> 90] }

EmptyResults == [background |-> <<>>, medium |-> <<>>, details |-> <<>>]

\* _analyze_background(current_hsv)
_analyze_background(prev, current_hsv) ==
    IF prev = None THEN [hue_shift |-> 0, value_shift |-> 0]
    ELSE IF prev.shape # current_hsv.shape
    THEN \* cv2.absdiff raises on mismatching sizes; the except returns zeros
         [hue_shift |-> 0, value_shift |-> 0]
    ELSE [hue_shift   |-> Abs(current_hsv.hue - prev.hue),
          value_shift |-> Abs(current_hsv.value - prev.value)]

\* _analyze_mid_motion(current_hsv); flow is the backend's answer
_analyze_mid_motion(prev, current_hsv, flow) ==
    IF prev = None THEN [intensity |-> 0, direction |-> 0, time |-> 0]
    ELSE IF prev.shape # current_hsv.shape
    THEN \* the backend raises on mismatching sizes; the except returns zeros
         [intensity |-> 0, direction |-> 0, time |-> 0]
    ELSE [intensity |-> flow.intensity, direction |-> flow.direction % 360,
          time |-> 0]

\* _detect_details(current_hsv)
_detect_details(current_hsv) ==
    IF current_hsv.blobs = 0 THEN <<>>
    ELSE << [x |-> 5, y |-> 5, size |-> 50, hue |-> current_hsv.hue] >>

\* for detail in details_data: detail["time"] = current_time
stamp_all(events, current_time) ==
    [i \in 1..Len(events) |-> With(events[i], "time", current_time)]

\* cap.get(cv2.CAP_PROP_POS_MSEC) for the frame just delivered
current_time_of(position) == position * frame_ms

\* analyze_video: the capture is opened, the accumulators are created.
\* self.prev_hsv is set in __init__ only.
AnalyzeStart ==
    /\ apc \in {"idle", "returned", "failed"}
    /\ calls < MaxCalls
    /\ calls' = calls + 1
    /\ video' \in Shapes
    /\ results' = EmptyResults
    /\ frame_count' = 0
    /\ pos' = 0
    /\ apc' = "loop"
    /\ last_read' = "none"
    /\ stamps' = <<>>
    /\ assigned' = 0
    /\ UNCHANGED <<prev_hsv, last_normalized, mapper_vars, score_vars,
                   config_vars>>

\* if not cap.isOpened(): raise ValueError
OpenFails ==
    /\ apc \in {"idle", "returned", "failed"}
    /\ calls < MaxCalls
    /\ calls' = calls + 1
    /\ apc' = "failed"
    /\ last_read' = "none"
    /\ UNCHANGED <<prev_hsv, results, frame_count, pos, video,
                   stamps, assigned, last_normalized,
                   mapper_vars, score_vars,
                   config_vars>>

\* ret is False because the stream is exhausted: break, release, return.
ReadEndOfStream ==
    /\ apc = "loop"
    /\ apc' = "returned"
    /\ last_read' = "end_of_stream"
    /\ UNCHANGED <<prev_hsv, results, frame_count, pos, calls, video,
                   stamps, assigned, last_normalized,
                   mapper_vars, score_vars,
                   config_vars>>

\* ret is False because a frame before the end could not be decoded
\* (cap.read() reports both the same way): break, release, return.
ReadDecodeError ==
    /\ apc = "loop"
    /\ pos < MaxFrames
    /\ apc' = "returned"
    /\ last_read' = "decode_error"
    /\ UNCHANGED <<prev_hsv, results, frame_count, pos, calls, video,
                   stamps, assigned, last_normalized,
                   mapper_vars, score_vars,
                   config_vars>>

\* ret is True and frame is None or frame.size == 0
ReadEmptyFrame ==
    /\ apc = "loop"
    /\ pos < MaxFrames
    /\ pos' = pos + 1
    /\ frame_count' = frame_count + 1
    /\ last_read' = "empty"
    /\ UNCHANGED <<apc, prev_hsv, results, calls, video,
                   stamps, assigned, last_normalized,
                   mapper_vars, score_vars,
                   config_vars>>

\* _preprocess_frame returns None: continue
PreprocessFails ==
    /\ apc = "loop"
    /\ pos < MaxFrames
    /\ pos' = pos + 1
    /\ last_read' = "preprocess_failed"
    /\ UNCHANGED <<apc, prev_hsv, results, frame_count, calls, video,
                   stamps, assigned, last_normalized,
                   mapper_vars, score_vars,
                   config_vars>>

\* The accumulators after the three analyses of one frame.
results_after(res, prev, processed, flow, current_time) ==
    LET bg_data  == With(_analyze_background(prev, processed),
                         "time", current_time)
        mid_data == With(_analyze_mid_motion(prev, processed, flow),
                         "time", current_time)
        details_data == stamp_all(_detect_details(processed), current_time)
    IN  [background |-> Append(res.background, bg_data),
         medium     |-> Append(res.medium, mid_data),
         details    |-> res.details \o details_data]

\* frame_count after the frame was analysed
frame_count_after(count, callback_raises) ==
    IF callback_raises THEN count ELSE count + 1

\* Mutant: the slot keeps the first frame it was given.
prev_hsv_first_kept(prev, processed) ==
    IF prev = None THEN processed ELSE prev

\* self.prev_hsv = processed.copy()
prev_hsv_after(prev, processed) == processed

\* One frame is preprocessed and analysed.  When a progress callback is
\* set and raises, the except clause skips frame_count += 1.
ProcessFrame ==
    /\ apc = "loop"
    /\ pos < MaxFrames
    /\ \E processed \in Frames, flow \in Flows, callback_raises \in BOOLEAN :
          /\ processed.shape = video
          /\ (prev_hsv = None \/ prev_hsv.shape # video) => flow = [intensity |-> 0, direction |-> 0]
          /\ results' = results_after(results, prev_hsv, processed, flow,
                                      current_time_of(pos))
          /\ prev_hsv' = prev_hsv_after(prev_hsv, processed)
          /\ last_normalized' = processed
          /\ frame_count' = frame_count_after(frame_count, callback_raises)
          /\ last_read' = IF callback_raises THEN "callback_raised"
                          ELSE "processed"
    /\ stamps' = Append(stamps, current_time_of(pos))
    /\ assigned' = assigned + 1
    /\ pos' = pos + 1
    /\ UNCHANGED <<apc, calls, video, mapper_vars, score_vars,
                   config_vars>>

DetectorNext ==
    \/ AnalyzeStart
    \/ OpenFails
    \/ ReadEndOfStream
    \/ ReadDecodeError
    \/ ReadEmptyFrame
    \/ PreprocessFails
    \/ ProcessFrame

InitDetector ==
    /\ builder = "none" /\ pc = "idle"
    /\ config = [decay_b |-> default_decay_b, decay_m |-> default_decay_m,
                 threshold |-> default_threshold,
                 group_threshold |-> default_group]
    /\ data = <<>> /\ track = <<>> /\ last_time = 0 /\ last_hue = 0
    /\ current_group = <<>> /\ clusters = <<>> /\ gap_ms = <<>>
    /\ mid = <<>>
    /\ analysis_data = [background |-> <<>>, medium |-> <<>>, details |-> <<>>]
    /\ apc = "idle" /\ prev_hsv = None
    /\ results = EmptyResults
    /\ frame_count = 0 /\ pos = 0 /\ calls = 0 /\ video = "none"
    /\ last_read = "none"
    /\ stamps = <<>> /\ assigned = 0 /\ last_normalized = None
    /\ cpc = "idle" /\ mode = "none"
    /\ base_cfg = None /\ user_cfg = None /\ key_order = <<>>
    /\ once = None /\ twice = None

SpecDetector == InitDetector /\ [][DetectorNext]_vars

---------------------------------------------------------------------------
\* Configuration mappings.
\*
\* A configuration value is a number, [leaf |-> n], or a mapping,
\* [dict |-> f] with f a function from some keys to configuration values.
\* A call that raises yields Raised.
Keys == {"medium", "details"}

Leaves == { [leaf |-> n] : n \in {52, 74} }

Dict(f) == [dict |-> f]

IsDict(v) == "dict" \in DOMAIN v

Raised == [raised |-> TRUE]

DictsOver(values) ==
    { Dict(f) : f \in UNION { [ks -> values] : ks \in SUBSET Keys } }

\* Mappings of numbers, and mappings of numbers and such mappings.
FlatDicts   == DictsOver(Leaves)
NestedDicts == DictsOver(Leaves \cup FlatDicts)

RECURSIVE _merge_configs(_, _)
RECURSIVE _merge_configs_empty_section(_, _)

\* Mutant: a section the default lacks is created empty instead of taken
\* from the user mapping.
_merge_configs_empty_section(default, user) ==
    IF ~IsDict(default) \/ ~IsDict(user) THEN Raised
    ELSE LET d == default.dict
             u == user.dict
             merged ==
                 [key \in (DOMAIN d) \cup (DOMAIN u) |->
                     IF key \notin DOMAIN u THEN d[key]
                     ELSE IF IsDict(u[key]) /\ key \in DOMAIN d
                     THEN _merge_configs_empty_section(d[key], u[key])
                     ELSE IF IsDict(u[key]) THEN Dict(<<>>)
                     ELSE u[key]]
         IN  IF \E key \in DOMAIN merged : merged[key] = Raised
             THEN Raised
             ELSE Dict(merged)

\* _merge_configs(default, user): default.copy() and user.items() raise
\* AttributeError unless both are mappings.
_merge_configs(default, user) ==
    IF ~IsDict(default) \/ ~IsDict(user) THEN Raised
    ELSE LET d == default.dict
             u == user.dict
             merged ==
                 [key \in (DOMAIN d) \cup (DOMAIN u) |->
                     IF key \notin DOMAIN u THEN d[key]
                     ELSE IF IsDict(u[key]) /\ key \in DOMAIN d
                     THEN _merge_configs(d[key], u[key])
                     ELSE u[key]]
         IN  IF \E key \in DOMAIN merged : merged[key] = Raised
             THEN Raised
             ELSE Dict(merged)

\* dict.update(other) on two mappings
dict_update(target, other) ==
    Dict([key \in (DOMAIN target.dict) \cup (DOMAIN other.dict) |->
             IF key \in DOMAIN other.dict THEN other.dict[key]
             ELSE target.dict[key]])

RECURSIVE update_tracks(_, _, _)
\* The loop of Config.update over preset["tracks"].items() in the order
\* names: self.tracks afterwards.  A raising iteration ends the loop and
\* keeps what the earlier iterations changed.
update_tracks(tracks, preset_tracks, names) ==
    IF names = <<>> THEN tracks
    ELSE LET track_name   == Head(names)
             track_config == preset_tracks.dict[track_name]
         IN  IF track_name \notin DOMAIN tracks.dict
             THEN update_tracks(tracks, preset_tracks, Tail(names))
             ELSE IF ~IsDict(tracks.dict[track_name]) \/ ~IsDict(track_config)
             THEN tracks
             ELSE update_tracks(
                      Dict([tracks.dict EXCEPT ![track_name] =
                                dict_update(tracks.dict[track_name],
                                            track_config)]),
                      preset_tracks, Tail(names))

\* Config.update(preset): self.tracks afterwards
Config_update(tracks, preset, names) ==
    IF "tracks" \in DOMAIN preset.dict
    THEN update_tracks(tracks, preset.dict["tracks"], names)
    ELSE tracks

\* The orders in which a mapping's keys may be iterated.
Orders(f) ==
    { o \in UNION { [1..n -> DOMAIN f] : n \in {Cardinality(DOMAIN f)} } :
          \A i, j \in DOMAIN o : i # j => o[i] # o[j] }

Presets ==
    { Dict([k \in {"tracks"} |-> p]) : p \in NestedDicts } \cup { Dict(<<>>) }

MergeOnce ==
    /\ mode = "merge" /\ cpc = "start"
    /\ once' = _merge_configs(base_cfg, user_cfg)
    /\ cpc' = "once"
    /\ UNCHANGED <<mode, base_cfg, user_cfg, key_order, twice,
                   mapper_vars, score_vars,
                   detector_vars>>

\* The same user mapping is merged over the first result (when there is
\* one: a raising merge leaves nothing to merge over).
MergeTwice ==
    /\ mode = "merge" /\ cpc = "once"
    /\ twice' = IF once = Raised THEN Raised
                ELSE _merge_configs(once, user_cfg)
    /\ cpc' = "done"
    /\ UNCHANGED <<mode, base_cfg, user_cfg, key_order, once,
                   mapper_vars, score_vars,
                   detector_vars>>

UpdateOnce ==
    /\ mode = "update" /\ cpc = "start"
    /\ once' = Config_update(base_cfg, user_cfg, key_order)
    /\ cpc' = "once"
    /\ UNCHANGED <<mode, base_cfg, user_cfg, key_order, twice,
                   mapper_vars, score_vars,
                   detector_vars>>

UpdateTwice ==
    /\ mode = "update" /\ cpc = "once"
    /\ twice' = Config_update(once, user_cfg, key_order)
    /\ cpc' = "done"
    /\ UNCHANGED <<mode, base_cfg, user_cfg, key_order, once,
                   mapper_vars, score_vars,
                   detector_vars>>

ConfigNext ==
    \/ MergeOnce
    \/ MergeTwice
    \/ UpdateOnce
    \/ UpdateTwice

InitConfig ==
    /\ builder = "none" /\ pc = "idle"
    /\ config = [decay_b |-> default_decay_b, decay_m |-> default_decay_m,
                 threshold |-> default_threshold,
                 group_threshold |-> default_group]
    /\ data = <<>> /\ track = <<>> /\ last_time = 0 /\ last_hue = 0
    /\ current_group = <<>> /\ clusters = <<>> /\ gap_ms = <<>>
    /\ mid = <<>>
    /\ analysis_data = [background |-> <<>>, medium |-> <<>>, details |-> <<>>]
    /\ apc = "idle" /\ prev_hsv = None
    /\ results = EmptyResults
    /\ frame_count = 0 /\ pos = 0 /\ calls = 0 /\ video = "none"
    /\ last_read = "none"
    /\ stamps = <<>> /\ assigned = 0 /\ last_normalized = None
    /\ cpc = "start"
    /\ mode \in {"merge", "update"}
    /\ base_cfg \in NestedDicts
    /\ user_cfg \in IF mode = "merge" THEN NestedDicts ELSE Presets
    /\ key_order \in IF mode = "update" /\ "tracks" \in DOMAIN user_cfg.dict
                      THEN Orders(user_cfg.dict["tracks"].dict)
                      ELSE {<<>>}
    /\ once = None /\ twice = None

SpecConfig == InitConfig /\ [][ConfigNext]_vars

---------------------------------------------------------------------------
\* Properties of the track builders.

IsNoteOn(m) == m.type = "note_on"

RECURSIVE SumTime(_, _)
\* The sum of the delta times of the first n messages of a track.
SumTime(trk, n) == IF n = 0 THEN 0 ELSE SumTime(trk, n - 1) + trk[n].time

RECURSIVE Flatten(_)
Flatten(groups) ==
    IF groups = <<>> THEN <<>> ELSE Head(groups) \o Flatten(Tail(groups))

\* A millisecond value that converts to ticks without a remainder.
Exact(ms) == (ms * ticks_per_beat) % (tempo \div 1000) = 0

Running == pc \in {"loop", "done"}

\* The samples of the medium input at or above the threshold, in order.
KeptMedium ==
    LET AtOrAbove(e) ==
            IF "intensity" \in DOMAIN e THEN e.intensity >= config.threshold
            ELSE 0 >= config.threshold
    IN  SelectSeq(data, AtOrAbove)

\* C1: the medium track holds one NoteOn per sample at or above the
\* threshold and none for a sample strictly below it, and the delta of each
\* kept sample's NoteOn is ms_to_ticks of the time since the previous kept
\* sample (0 before the first), whatever was filtered in between.
C1_MediumFilterAndDelta ==
    (builder = "medium" /\ Running) =>
        LET ons == SelectSeq(track, IsNoteOn) IN
        /\ Len(ons) = Len(KeptMedium)
        /\ \A j \in 1..Len(ons) :
              /\ track[2 * j] = ons[j]
              /\ ons[j].time =
                    ms_to_ticks(KeptMedium[j].time
                                - (IF j = 1 THEN 0 ELSE KeptMedium[j - 1].time))

\* C1 witness: a timed, filtered sample lies strictly between two kept ones.
C1_Witness ==
    /\ builder = "medium" /\ pc = "done" /\ Len(data) >= 3
    /\ Len(KeptMedium) = 2
    /\ \A i \in 1..3 : "time" \in DOMAIN data[i]
    /\ Get(data[1], "intensity", 0) >= config.threshold
    /\ Get(data[2], "intensity", 0) < config.threshold
    /\ Get(data[3], "intensity", 0) >= config.threshold
    /\ data[1].time < data[2].time /\ data[2].time < data[3].time

\* The groups the details builder has formed so far: the flushed ones and
\* the one being accumulated.
GroupsSoFar ==
    IF pc = "done" \/ current_group = <<>> THEN clusters
    ELSE Append(clusters, current_group)

\* C2: the groups are a partition of the consumed events into runs of
\* consecutive events, in input order; inside a group every gap to the
\* preceding event is at most the group threshold, and a group starts
\* exactly where the gap to the preceding event is strictly greater.
C2_DetailsClusters ==
    (builder = "details" /\ Running) =>
        /\ Flatten(GroupsSoFar) = data
        /\ \A g \in 1..Len(GroupsSoFar) :
              /\ GroupsSoFar[g] # <<>>
              /\ \A i \in 2..Len(GroupsSoFar[g]) :
                    GroupsSoFar[g][i].time - GroupsSoFar[g][i - 1].time
                        <= config.group_threshold
              /\ g > 1 =>
                    GroupsSoFar[g][1].time - Last(GroupsSoFar[g - 1]).time
                        > config.group_threshold

\* C2 witness: times 0, 10, 80, 90 with threshold 50 give {0,10} and {80,90}.
C2_Witness ==
    /\ builder = "details" /\ pc = "done"
    /\ config.group_threshold = 50
    /\ Len(data) = 4
    /\ \A i \in 1..4 : "time" \in DOMAIN data[i]
    /\ <<data[1].time, data[2].time, data[3].time, data[4].time>>
          = <<0, 10, 80, 90>>
    /\ clusters = <<SubSeq(data, 1, 2), SubSeq(data, 3, 4)>>

\* C4: on the background and medium tracks, when the timestamps and the
\* decay convert to ticks exactly, the delta times up to and including the
\* NoteOn of a sample add up to ms_to_ticks(sample.time).
C4_RunningDelta ==
    /\ (builder = "background" /\ Running /\ Exact(config.decay_b)) =>
          \A k \in 1..Len(data) :
              (\A i \in 1..k : Exact(data[i].time)) =>
                  SumTime(track, 3 * k) = ms_to_ticks(data[k].time)
    /\ (builder = "medium" /\ Running /\ Exact(config.decay_m)) =>
          \A j \in 1..Len(KeptMedium) :
              (\A i \in 1..j : Exact(KeptMedium[i].time)) =>
                  SumTime(track, 2 * j) = ms_to_ticks(KeptMedium[j].time)

\* C5: every message of a track carries the channel of that track.
C5_TrackChannels ==
    builder \in DOMAIN channel_mapping =>
        \A i \in 1..Len(track) : track[i].channel = channel_mapping[builder]

\* C8: no sample with a missing field makes a track builder raise.
C8_MissingFieldNeverRaises == pc # "raised"

\* C9: every gap handed to ms_to_ticks converts to floor(ms * 480 / 500),
\* and ms_to_ticks(0) = 0, ms_to_ticks(1000) = 960.
C9_TicksAreFloor ==
    /\ ms_to_ticks(0) = 0
    /\ ms_to_ticks(1000) = 960
    /\ \A i \in 1..Len(gap_ms) :
          ms_to_ticks(gap_ms[i]) = Floor(gap_ms[i] * 480, 500)

---------------------------------------------------------------------------
\* Properties of the frame analysis.

\* C3: in every call of analyze_video the first processed frame yields a
\* zero background sample and a zero motion sample.
C3_FirstFrameZero ==
    results.background # <<>> =>
        /\ results.background[1].hue_shift = 0
        /\ results.background[1].value_shift = 0
        /\ results.medium[1].intensity = 0
        /\ results.medium[1].direction = 0

\* C6: a frame that is empty, fails to decode or fails preprocessing leaves
\* prev_hsv and the accumulators as they were and advances frame_count by
\* one.
C6_SkippedFrame ==
    [][(ReadEmptyFrame \/ ReadDecodeError \/ PreprocessFails) =>
           /\ prev_hsv' = prev_hsv
           /\ results' = results
           /\ frame_count' = frame_count + 1]_vars

\* C7: only the end of the stream ends the loop of analyze_video; a frame
\* that fails to decode does not.
C7_OnlyEndOfStreamStops ==
    apc = "returned" => last_read = "end_of_stream"

\* C14: self.prev_hsv has been written once per frame that contributed
\* samples and holds the normalized form of the latest such frame, so it is
\* never empty again once a frame was analysed; the background and medium
\* accumulators hold one sample per such frame, stamped with the timestamp
\* of that frame.
C14_PrevSlotPerProcessedFrame ==
    /\ prev_hsv = last_normalized
    /\ apc \in {"loop", "returned"} =>
          /\ assigned = Len(stamps)
          /\ Len(results.background) = Len(stamps)
          /\ Len(results.medium) = Len(stamps)
          /\ \A i \in 1..Len(stamps) :
                /\ results.background[i].time = stamps[i]
                /\ results.medium[i].time = stamps[i]

\* C14 witness: in a second call on the same instance two frames were
\* analysed, a skipped frame between them, and they differ.
C14_Witness ==
    /\ apc = "returned" /\ calls = 2
    /\ stamps = <<0, 2 * frame_ms>>
    /\ Len(results.background) = 2
    /\ results.background[2].hue_shift # 0
    /\ prev_hsv # None

---------------------------------------------------------------------------
\* Properties of the configuration merges.

\* C10: merging the same mapping a second time changes nothing, for
\* _merge_configs and for Config.update.
C10_MergeIdempotent == cpc = "done" => twice = once

\* C10 witness: a merge that descended into a section present on both
\* sides and produced a result that is neither of its arguments.
C10_Witness ==
    /\ cpc = "done" /\ mode = "merge"
    /\ once # Raised /\ once # base_cfg /\ once # user_cfg
    /\ \E key \in (DOMAIN base_cfg.dict) \cap (DOMAIN user_cfg.dict) :
          /\ IsDict(base_cfg.dict[key]) /\ IsDict(user_cfg.dict[key])
          /\ once.dict[key] # base_cfg.dict[key]
          /\ once.dict[key] # user_cfg.dict[key]

---------------------------------------------------------------------------
\* Properties of the assembled file.

ProgramChanges(trk) ==
    { i \in 1..Len(trk) : trk[i].type = "program_change" }

\* C11: after the tempo track the instrument tracks come in the order
\* background, medium, details; each starts with a ProgramChange of delta 0
\* and holds no other ProgramChange; a track built from an empty stream
\* holds that ProgramChange alone; a saved file has exactly three of them.
C11_ProgramChangePerTrack ==
    InScore =>
        /\ mid[1] = <<set_tempo>>
        /\ Len(mid) <= 4
        /\ pc = "saved" => Len(mid) = 4
        /\ \A i \in 2..Len(mid) :
              LET name == <<"background", "medium", "details">>[i - 1] IN
              /\ ProgramChanges(mid[i]) = {1}
              /\ mid[i][1].time = 0
              /\ mid[i][1].channel = i - 2
              /\ mid[i][1].program = <<program_background, program_medium,
                                       program_details>>[i - 1]
              /\ analysis_data[name] = <<>> => Len(mid[i]) = 1
              /\ analysis_data[name] # <<>> =>
                    \A j \in 2..Len(mid[i]) :
                        mid[i][j].type \in {"control_change", "note_on",
                                            "note_off"}

\* C11 witness: a file saved from three empty streams.
C11_Witness ==
    /\ pc = "saved"
    /\ analysis_data = EmptyStreams
    /\ Len(mid) = 4
    /\ \A i \in 2..4 : Len(mid[i]) = 1

\* C11 witness of the general case: a saved file with a track holding notes.
C11_SavedWithNotes ==
    /\ pc = "saved"
    /\ \E i \in 2..4 : Len(mid[i]) > 1

\* The velocities a flushed cluster of k events is expected to sound with:
\* 127 for the main event, then 90 for each of the other k - 1.
ClusterVelocities(k) == <<127>> \o [i \in 1..(k - 1) |-> 90]

RECURSIVE ExpectedVelocities(_)
ExpectedVelocities(groups) ==
    IF groups = <<>> THEN <<>>
    ELSE ClusterVelocities(Len(Head(groups)))
             \o ExpectedVelocities(Tail(groups))

\* C12: flushing a cluster of k >= 1 events emits exactly k NoteOn/NoteOff
\* pairs, the main event at velocity 127 first and then one pair at
\* velocity 90 and delta 0 for each of the other k - 1 events, so the
\* details track holds as many NoteOns as there are detail events, also
\* when two events of a cluster have the same field values.
C12_NoteOnPerDetailEvent ==
    (builder = "details" /\ pc = "done") =>
        LET ons == SelectSeq(track, IsNoteOn) IN
        /\ Len(ons) = Len(data)
        /\ Len(track) = 1 + 2 * Len(data)
        /\ [i \in 1..Len(ons) |-> ons[i].velocity]
              = ExpectedVelocities(clusters)
        /\ \A i \in 1..Len(ons) : ons[i].velocity = 90 => ons[i].time = 0

IsMainNoteOn(m) == m.type = "note_on" /\ m.velocity = 127

\* The main event of a flushed cluster.
MainOf(group) == group[main_index(group)]

\* The millisecond times at which the last event emitted before cluster c
\* can be said to occur: 0 for the first cluster (the ProgramChange); for a
\* later one the time of the last detail event of the cluster before it, or
\* the time its last NoteOff sounds (50 ms after the main event plus 30 ms
\* for each other event).
PreviousMs(c) ==
    IF c = 1 THEN {0}
    ELSE LET prev == clusters[c - 1] IN
         { Last(prev).time,
           MainOf(prev).time + 50 + 30 * (Len(prev) - 1) }

\* C13: on the details track the delta of the NoteOn of each cluster's main
\* event is ms_to_ticks(main.time - T), T being the time in milliseconds of
\* the last event emitted to the track before it (0 for the first
\* cluster); the value subtracted is a millisecond time, never a tick
\* value.
C13_MainDeltaInMilliseconds ==
    (builder = "details" /\ Running) =>
        LET mains == SelectSeq(track, IsMainNoteOn) IN
        /\ Len(mains) = Len(clusters)
        /\ \A c \in 1..Len(clusters) :
              \E T \in PreviousMs(c) :
                  /\ gap_ms[c] = MainOf(clusters[c]).time - T
                  /\ mains[c].time = ms_to_ticks(MainOf(clusters[c]).time - T)

\* C15: for streams with non-negative, non-decreasing timestamps and
\* decays and group thresholds >= 0, every message on each of the three
\* tracks has a delta time >= 0.
C15_NoNegativeDelta ==
    (builder \in {"background", "medium", "details"}
        /\ config.decay_b >= 0 /\ config.decay_m >= 0
        /\ config.group_threshold >= 0) =>
        \A i \in 1..Len(track) : track[i].time >= 0

==========================================================================
